---- MODULE Spec2Model ----
(***************************************************************************)
(* A model of the MCP tutor client: the chat loop of assistant.py          *)
(* (chat_with_assistant) driving the six client operations of mcpclient.py *)
(* (discover_tools, execute_tool, list_resources, read_resource,           *)
(* list_prompts, get_prompt), each of which opens its own SSE session,     *)
(* performs the initialize handshake, issues one request and leaves the    *)
(* session's context managers.                                             *)
(***************************************************************************)
EXTENDS Integers, Sequences, FiniteSets, TLC

\* ------------------------------------------------------------------ bounds

\* No further line is read at the "You: " prompt once the transcript holds
\* this many messages.
MaxMessages == 3

\* ------------------------------------------------------- python values

\* Values held by the program's variables, tagged with their Python type.
PyNone == [t |-> "None"]

PyStr(s) == [t |-> "str", s |-> s]

PyList(l) == [t |-> "list", items |-> l]

\* The value of a call that was started and not awaited to its end.
PyPending == [t |-> "coroutine"]

\* Python truthiness, as used by "if not openai_tools" and "if result.content".
Truthy(v) ==
    CASE v.t = "list" -> v.items # <<>>
      [] v.t = "str"  -> v.s # ""
      [] v.t = "None" -> FALSE
      [] OTHER        -> TRUE

\* A Python string is a sequence of pieces: single characters where the code
\* looks inside the string (the input lines), whole texts elsewhere; + and
\* f-strings are concatenation.
\* f"Error: {str(e)}"
ErrorText(e) == PyStr(<<"Error: ">> \o e)

\* --------------------------------------------------- the server's answers

\* str(e) of the exceptions raised inside a client operation: by sse_client
\* when it cannot connect, by a request whose stream breaks, and by the
\* conversion of a result that lacks the attribute read.
ConnectErr == <<"All connection attempts failed">>
ClosedErr == <<"Connection closed">>
AttrErr == <<"object has no attribute 'text'">>
SubscriptErr == <<"object is not subscriptable">>
IndexErr == <<"list index out of range">>

\* No exception.
NoExc == <<>>

\* A content block of a result: a text block has a text attribute, an image
\* block has none.
TextBlock(s) == [type |-> "text", text |-> <<s>>]
ImageBlock == [type |-> "image", data |-> "bytes"]

\* The catalog of the server (mcpserver.py), and an empty one.
ServerTools == <<"evaluate_answer", "generate_question", "get_hint", "get_student_profile">>
ServerResources == <<"resource://students">>
ServerPrompts == <<"evaluate_student_work", "explain_concept">>

\* What tools/call can answer: the result's isError flag and content blocks.
CallToolResults ==
    { [isError |-> FALSE, content |-> <<TextBlock("hint")>>],
      [isError |-> FALSE, content |-> <<TextBlock("hint"), TextBlock("more")>>],
      [isError |-> FALSE, content |-> <<>>],
      [isError |-> FALSE, content |-> <<ImageBlock>>],
      [isError |-> TRUE,  content |-> <<TextBlock("Error executing tool")>>] }

ListToolsResults == { [tools |-> <<>>], [tools |-> ServerTools] }

ListResourcesResults == { [resources |-> <<>>], [resources |-> ServerResources] }

ListPromptsResults == { [prompts |-> <<>>], [prompts |-> ServerPrompts] }

\* The topic of the resource the user asks for.
ALGEBRA == <<"a", "l", "g", "e", "b", "r", "a">>

\* The handler answers a topic without a file with an empty text.
get_topic_resource_blank(topic, files) ==
    IF topic \in files THEN <<"# Algebra">> ELSE <<>>

\* get_topic_resource(topic), the handler of topic://{topic}, on a content
\* directory holding a file for each topic of files: the file's text, or the
\* sentence the except clause returns. The topics here are in lower case, as
\* topic.lower() leaves them.
get_topic_resource(topic, files) ==
    IF topic \in files THEN <<"# Algebra">>
    ELSE <<"No content available for ">> \o topic \o <<".">>

\* read_resource's answer to topic://algebra without a file for algebra.
NoContentResult ==
    [contents |-> <<[type |-> "text", text |-> get_topic_resource(ALGEBRA, {})]>>]

ReadResourceResults ==
    { [contents |-> <<[type |-> "text", text |-> get_topic_resource(ALGEBRA, {ALGEBRA})]>>],
      NoContentResult,
      [contents |-> <<TextBlock("# Algebra"), TextBlock("appendix")>>],
      [contents |-> <<[type |-> "blob", blob |-> "bytes"]>>],
      [contents |-> <<>>] }

\* A prompt message: its role and its content, which is a list of blocks
\* (indexable) or one bare block (not indexable, held here as a list of one).
PromptMessage(role, indexable, content) ==
    [role |-> role, indexable |-> indexable, content |-> content]

GetPromptResults ==
    { [messages |-> << PromptMessage("user", TRUE, <<TextBlock("Please explain")>>),
                       PromptMessage("assistant", TRUE, <<TextBlock("I'll explain")>>) >>],
      [messages |-> << PromptMessage("user", FALSE, <<TextBlock("Please explain")>>) >>],
      [messages |-> <<>>] }

\* ------------------------------------------------------ client operations

ClientOps ==
    {"discover_tools", "execute_tool", "list_resources", "read_resource",
     "list_prompts", "get_prompt"}

\* The request each operation issues on its session after the handshake.
Method(op) ==
    CASE op = "discover_tools" -> "list_tools"
      [] op = "execute_tool"   -> "call_tool"
      [] op = "list_resources" -> "list_resources"
      [] op = "read_resource"  -> "read_resource"
      [] op = "list_prompts"   -> "list_prompts"
      [] op = "get_prompt"     -> "get_prompt"

\* The answers the server can give to the request of an operation.
ResultsOf(op) ==
    CASE op = "discover_tools" -> ListToolsResults
      [] op = "execute_tool"   -> CallToolResults
      [] op = "list_resources" -> ListResourcesResults
      [] op = "read_resource"  -> ReadResourceResults
      [] op = "list_prompts"   -> ListPromptsResults
      [] op = "get_prompt"     -> GetPromptResults

\* The handshake is left out: the operation's request is sent at once.
HandshakeSkipped(op) == Method(op)

\* The first request sent on a freshly opened session: session.initialize().
HandshakeMethod(op) == "initialize"

\* hasattr(x, name) on a result object.
HasAttr(x, name) == name \in DOMAIN x

\* The entry discover_tools builds for one tool of the catalog.
OpenAITool(tool) == [type |-> "function", function |-> [name |-> tool]]

\* "\n\n".join(segments)
RECURSIVE Join(_)
Join(segs) ==
    IF segs = <<>> THEN <<>>
    ELSE IF Len(segs) = 1 THEN segs[1]
    ELSE segs[1] \o <<"\n\n">> \o Join(Tail(segs))

\* The except clauses return None instead of an empty list or an error text.
FallbackNone(op, e) == PyNone

\* The except clause of execute_tool drops the error text.
FallbackSilent(op, e) ==
    IF op \in {"discover_tools", "list_resources", "list_prompts"}
    THEN PyList(<<>>) ELSE PyNone

\* What the except clause of each operation returns for the exception e.
Fallback(op, e) ==
    CASE op = "discover_tools" -> PyList(<<>>)
      [] op = "list_resources" -> PyList(<<>>)
      [] op = "list_prompts"   -> PyList(<<>>)
      [] op = "execute_tool"   -> ErrorText(e)
      [] op = "read_resource"  -> ErrorText(e)
      [] op = "get_prompt"     -> ErrorText(e)

\* execute_tool returning the text of the last content block.
ExtractToolResultLast(result) ==
    IF result.content # <<>> THEN PyStr(result.content[Len(result.content)].text)
    ELSE PyNone

\* execute_tool: the first content block's text, None without content.
ExtractToolResult(result) ==
    IF result.content # <<>> THEN PyStr(result.content[1].text) ELSE PyNone

\* read_resource: the first content's text, or its str().
ExtractResource(uri, result) ==
    IF HasAttr(result, "contents") /\ result.contents # <<>>
    THEN IF HasAttr(result.contents[1], "text")
         THEN PyStr(result.contents[1].text)
         ELSE PyStr(<<"str(", result.contents[1].type, ")">>)
    ELSE IF HasAttr(result, "text")
         THEN PyStr(result.text)
         ELSE PyStr(<<"Unexpected result structure for : ">> \o uri)

\* The exception msg.content[0].text raises, if any.
RenderError(msg) ==
    IF ~msg.indexable THEN SubscriptErr
    ELSE IF msg.content = <<>> THEN IndexErr
    ELSE IF ~HasAttr(msg.content[1], "text") THEN AttrErr
    ELSE NoExc

\* get_prompt: the messages joined, each as "role: text".
ExtractPrompt(result) ==
    IF HasAttr(result, "messages")
    THEN PyStr(Join([i \in DOMAIN result.messages |->
                       <<result.messages[i].role, ": ">>
                         \o result.messages[i].content[1].text]))
    ELSE PyStr(result.text)

\* The exception raised while the result of an operation is converted, if any.
ConversionError(op, result) ==
    CASE op = "execute_tool" ->
            IF result.content # <<>> /\ ~HasAttr(result.content[1], "text")
            THEN AttrErr ELSE NoExc
      [] op = "get_prompt" ->
            IF HasAttr(result, "messages")
            THEN IF \E i \in DOMAIN result.messages : RenderError(result.messages[i]) # NoExc
                 THEN RenderError(result.messages[
                        CHOOSE i \in DOMAIN result.messages :
                          /\ RenderError(result.messages[i]) # NoExc
                          /\ \A j \in 1..(i - 1) : RenderError(result.messages[j]) = NoExc])
                 ELSE NoExc
            ELSE IF HasAttr(result, "text") THEN NoExc ELSE AttrErr
      [] OTHER -> NoExc

\* The value an operation returns when the conversion of the result succeeds.
ReturnValue(op, args, result) ==
    CASE op = "discover_tools" ->
            PyList([i \in DOMAIN result.tools |-> OpenAITool(result.tools[i])])
      [] op = "execute_tool"   -> ExtractToolResult(result)
      [] op = "list_resources" -> PyList(result.resources)
      [] op = "read_resource"  -> ExtractResource(args.uri, result)
      [] op = "list_prompts"   -> PyList(result.prompts)
      [] op = "get_prompt"     -> ExtractPrompt(result)

\* ------------------------------------------------------ string functions

\* str.lower() on the letters the inputs use.
LowerChar(c) ==
    CASE c = "E" -> "e" [] c = "X" -> "x" [] c = "I" -> "i" [] c = "T" -> "t"
      [] c = "Y" -> "y" [] c = "H" -> "h" [] c = "L" -> "l" [] c = "P" -> "p"
      [] OTHER -> c

Lower(s) == [i \in DOMAIN s |-> LowerChar(s[i])]

IsSpace(c) == c = " "

\* str.startswith(c) for a one-character prefix.
StartsWith(s, c) == s # <<>> /\ s[1] = c

\* The words of s from position i on; cur is the word being collected.
RECURSIVE SplitFrom(_, _, _)
SplitFrom(s, i, cur) ==
    IF i > Len(s)
    THEN IF cur = <<>> THEN <<>> ELSE <<cur>>
    ELSE IF IsSpace(s[i])
         THEN IF cur = <<>>
              THEN SplitFrom(s, i + 1, <<>>)
              ELSE <<cur>> \o SplitFrom(s, i + 1, <<>>)
         ELSE SplitFrom(s, i + 1, Append(cur, s[i]))

\* str.split(): the maximal runs of non-blank characters.
Split(s) == SplitFrom(s, 1, <<>>)

\* c in w
Contains(w, c) == \E i \in DOMAIN w : w[i] = c

\* w.split(c, 1) for a w that contains c: the parts around the first c.
SplitOnce(w, c) ==
    LET i == CHOOSE k \in DOMAIN w : w[k] = c /\ \A j \in 1..(k - 1) : w[j] # c
    IN  <<SubSeq(w, 1, i - 1), SubSeq(w, i + 1, Len(w))>>

\* d[k] = v on a dict d.
DictSet(d, k, v) == [x \in DOMAIN d \cup {k} |-> IF x = k THEN v ELSE d[x]]

\* The dict built from the arg:value words of parts, from position i on.
RECURSIVE ParseArgs(_, _, _)
ParseArgs(parts, i, acc) ==
    IF i > Len(parts) THEN acc
    ELSE IF Contains(parts[i], ":")
         THEN ParseArgs(parts, i + 1,
                        DictSet(acc, SplitOnce(parts[i], ":")[1],
                                     SplitOnce(parts[i], ":")[2]))
         ELSE ParseArgs(parts, i + 1, acc)

\* json.loads(s) succeeds: the argument strings the model can emit are one
\* JSON object and one malformed text.
JsonOk(s) == s = <<"{\"topic\": \"algebra\"}">>

\* json.loads(s) for a well-formed s.
JsonLoads(s) == [topic |-> "algebra"]

\* ----------------------------------------------------------- the inputs

EXIT == <<"e", "x", "i", "t">>
HELP == <<"/", "h", "e", "l", "p">>
RESOURCE == <<"/", "r", "e", "s", "o", "u", "r", "c", "e">>
PROMPT == <<"/", "p", "r", "o", "m", "p", "t">>
YES == <<"y">>

\* Lines typed at the "You: " prompt.
InputLines ==
    { <<"h", "i">>,
      <<"e", "x", "i", "t">>,
      <<"E", "x", "i", "t">>,
      <<"E", "X", "I", "T">>,
      <<"/", "h", "e", "l", "p">>,
      <<"/", "H", "e", "l", "p", " ", "m", "e">>,
      <<"/", "r", "e", "s", "o", "u", "r", "c", "e", " ", "t", "o", "p", "i", "c", ":", "/", "/", "a", "l", "g", "e", "b", "r", "a">>,
      <<"/", "p", "r", "o", "m", "p", "t", " ", "e", "x", "p", "l", "a", "i", "n", "_", "c", "o", "n", "c", "e", "p", "t", " ", "c", "o", "n", "c", "e", "p", "t", ":", "g", "r", "a", "v", "i", "t", "y", " ", "l", "e", "v", "e", "l", ":", "a", "d", "v", "a", "n", "c", "e", "d">>,
      <<"/", "p", "r", "o", "m", "p", "t", " ", "e", "x", "p", "l", "a", "i", "n", "_", "c", "o", "n", "c", "e", "p", "t", " ", "c", "o", "n", "c", "e", "p", "t", ":", "g", "r", "a", "v", "i", "t", "y">>,
      <<"/", "q", "u", "i", "z">>,
      <<"/", "r", "e", "s", "o", "u", "r", "c", "e">>,
      <<"/", "p", "r", "o", "m", "p", "t">> }

\* The parameters of the server's prompt functions: none has a default, so
\* each is a required argument of its prompt.
RequiredArguments(name) ==
    IF name = <<"e", "v", "a", "l", "u", "a", "t", "e", "_", "s", "t", "u", "d", "e", "n", "t", "_", "w", "o", "r", "k">>
    THEN { <<"a", "n", "s", "w", "e", "r">> }
    ELSE IF name = <<"e", "x", "p", "l", "a", "i", "n", "_", "c", "o", "n", "c", "e", "p", "t">>
    THEN { <<"c", "o", "n", "c", "e", "p", "t">>,
           <<"l", "e", "v", "e", "l">> }
    ELSE {}

\* Answers typed at the "Add this ... to the chat? (y/n): " prompt.
Answers == { <<"y">>, <<"Y">>, <<"n">> }

\* The tool calls a model reply is made of; the last one carries arguments
\* that are not JSON.
GetHintCall ==
    [id |-> "call_1", name |-> "get_hint",
     arguments |-> <<"{\"topic\": \"algebra\"}">>]

QuestionCall ==
    [id |-> "call_2", name |-> "generate_question",
     arguments |-> <<"{\"topic\": \"algebra\"}">>]

MalformedCall ==
    [id |-> "call_3", name |-> "get_hint", arguments |-> <<"{not json">>]

\* The lists of tool calls a model reply can hold.
ToolCallLists ==
    { <<GetHintCall>>,
      <<GetHintCall, QuestionCall>>,
      <<MalformedCall>>,
      <<QuestionCall, MalformedCall>> }

\* --------------------------------------------------------- the transcript

SystemMsg == [role |-> "system", content |-> PyStr(<<"You are an educational assistant">>)]

UserMsg(content) == [role |-> "user", content |-> content]

\* response.choices[0].message
AssistantMsg(content, calls) ==
    [role |-> "assistant", content |-> content, tool_calls |-> calls]

\* The tool message is tagged with the function name instead of the call id.
ToolMsgTaggedByName(call, content) ==
    [role |-> "tool", tool_call_id |-> call.name, name |-> call.name, content |-> content]

ToolMsg(call, content) ==
    [role |-> "tool", tool_call_id |-> call.id, name |-> call.name, content |-> content]

\* Instead of appending, the last message is overwritten.
AppendMsgOverwrite(msgs, m) ==
    IF msgs = <<>> THEN <<m>> ELSE [msgs EXCEPT ![Len(msgs)] = m]

\* messages.append(m)
AppendMsg(msgs, m) == Append(msgs, m)

\* The check for an empty catalog is left out.
NoToolsUnchecked(tools) == FALSE

\* "if not openai_tools"
NoTools(tools) == ~Truthy(tools)

\* The for loop runs over the calls in reverse.
CallAtReversed(calls, i) == calls[Len(calls) + 1 - i]

\* The element the for loop over calls yields at its i-th iteration.
CallAt(calls, i) == calls[i]

\* What the first model call (with tools) can answer.
FirstReplies ==
    { AssistantMsg(PyStr(<<"answer">>), <<>>) } \cup
    { AssistantMsg(PyNone, calls) : calls \in ToolCallLists }

\* What the second model call (without tools) can answer.
FinalReplies == { AssistantMsg(PyStr(<<"final answer">>), <<>>) }

\* str(v), as an f-string renders v.
Str(v) == IF v.t = "str" THEN v.s ELSE <<v.t>>

\* ------------------------------------------------------------- the state

VARIABLES
    pc,            \* where chat_with_assistant stands
    messages,      \* the transcript
    openai_tools,  \* the tool catalog handed to the model
    resources,     \* the discovered resources
    prompts,       \* the discovered prompts
    tool_calls,    \* assistant_message.tool_calls of the current turn
    idx,           \* position of the for loop in tool_calls
    fetched,       \* resource_content / prompt_content of the current command
    user_input,    \* the line read last
    raised,        \* the exception that left chat_with_assistant, if any
    sessions,      \* the client calls in progress, each with its session
    inflight       \* the requests sent and not yet answered

vars ==
    <<pc, messages, openai_tools, resources, prompts, tool_calls, idx, fetched,
      user_input, raised, sessions, inflight>>

MCP_SERVER_URL == <<"http://localhost:8050">>

\* The model inference request; it belongs to no session.
LLMRequest == [sess |-> 0, method |-> "chat.completions.create"]

\* The longest server URL test_client is called with, in characters.
MaxUrlLen == 6

\* s.endswith(suffix)
EndsWith(s, suffix) ==
    /\ Len(s) >= Len(suffix)
    /\ SubSeq(s, Len(s) - Len(suffix) + 1, Len(s)) = suffix

\* The endpoint path of the SSE transport, character by character.
SSE == <<"/", "s", "s", "e">>

\* format_server_url(url). A URL is a sequence of pieces; the function looks
\* at its end, so the URLs whose end matters are written character by
\* character.
format_server_url(url) ==
    IF EndsWith(url, SSE) THEN url
    ELSE IF EndsWith(url, <<"/">>) THEN url \o <<"s", "s", "e">>
    ELSE url \o SSE

\* A call of a client operation: the coroutine has been entered, has
\* formatted the URL and is connecting; its session is not open yet and it
\* has sent none of its own requests.
NewCall(op, args) ==
    [op |-> op, args |-> args, formatted_url |-> format_server_url(args.server_url),
     state |-> "Unopened", phase |-> "connecting", requests |-> 0,
     result |-> PyNone, exc |-> NoExc, ret |-> PyPending]

\* The session is used without a context manager: nothing closes it.
ExitContextsLeak(sess) == sess

\* Leaving "async with ClientSession" and "async with sse_client".
ExitContexts(sess) == [sess EXCEPT !.state = "Closed"]

\* The operation is started as a task and the caller goes on at once.
NotAwaited(sess) == TRUE

\* "await op(...)" lets the caller go on once the operation has returned.
Awaited(sess) == sess.phase = "returned"

\* The call chat_with_assistant is waiting for.
Callee == sessions[Len(sessions)]

\* The calls left once the caller has taken the callee's return value: a call
\* that has returned is gone with its frame and its closed session.
Returned ==
    IF Callee.phase = "returned" THEN SubSeq(sessions, 1, Len(sessions) - 1)
    ELSE sessions

Init ==
    /\ pc = "start"
    /\ messages = <<>>
    /\ openai_tools = PyNone
    /\ resources = PyNone
    /\ prompts = PyNone
    /\ tool_calls = <<>>
    /\ idx = 0
    /\ fetched = PyNone
    /\ user_input = PyNone
    /\ raised = "none"
    /\ sessions = <<>>
    /\ inflight = {}

\* ------------------------------------------- the steps of a client call

\* sse_client connected and ClientSession entered: initialize() is sent.
Connected(s) ==
    /\ sessions[s].phase = "connecting"
    /\ sessions' = [sessions EXCEPT ![s].state = "Open", ![s].phase = "handshake"]
    /\ inflight' = inflight \cup {[sess |-> s, method |-> HandshakeMethod(sessions[s].op)]}
    /\ UNCHANGED <<pc, messages, openai_tools, resources, prompts, tool_calls,
                   idx, fetched, raised>>
    /\ UNCHANGED user_input

\* The operation has no except clause: the exception leaves it and reaches
\* the caller.
ExceptPropagates(sess, e) ==
    [sess EXCEPT !.phase = "returned", !.exc = e, !.ret = [t |-> "raise", s |-> e]]

\* The except clause tries the operation once more when its request failed.
ExceptRetry(sess, e) ==
    IF sess.phase = "request" /\ sess.requests = 1
    THEN [sess EXCEPT !.state = "Initialized", !.requests = 2]
    ELSE [sess EXCEPT !.phase = "returned", !.exc = e, !.ret = Fallback(sess.op, e)]

\* The exception e is raised inside the operation sess: its except clause
\* catches it and returns the fallback.
Except(sess, e) ==
    [sess EXCEPT !.phase = "returned", !.exc = e, !.ret = Fallback(sess.op, e)]

\* sse_client could not connect.
ConnectFailed(s) ==
    /\ sessions[s].phase = "connecting"
    /\ sessions' = [sessions EXCEPT ![s] = Except(@, ConnectErr)]
    /\ UNCHANGED <<pc, messages, openai_tools, resources, prompts, tool_calls,
                   idx, fetched, raised, inflight>>
    /\ UNCHANGED user_input

\* The handshake is answered: the operation's own request is sent.
Initialized(s) ==
    /\ sessions[s].phase = "handshake"
    /\ sessions' = [sessions EXCEPT ![s].state = "Initialized", ![s].phase = "request",
                                    ![s].requests = @ + 1]
    /\ inflight' = (inflight \ {[sess |-> s, method |-> "initialize"]})
                     \cup {[sess |-> s, method |-> Method(sessions[s].op)]}
    /\ UNCHANGED <<pc, messages, openai_tools, resources, prompts, tool_calls,
                   idx, fetched, raised>>
    /\ UNCHANGED user_input

\* The handshake fails: both contexts are left on the way to the except clause.
InitializeFailed(s) ==
    /\ sessions[s].phase = "handshake"
    /\ sessions' = [sessions EXCEPT ![s] = Except(ExitContexts(@), ClosedErr)]
    /\ inflight' = inflight \ {[sess |-> s, method |-> "initialize"]}
    /\ UNCHANGED <<pc, messages, openai_tools, resources, prompts, tool_calls,
                   idx, fetched, raised>>
    /\ UNCHANGED user_input

\* The server answers the request: the result is converted and returned, or
\* the conversion raises into the except clause; both contexts are left.
Responded(s, result) ==
    /\ sessions[s].phase = "request"
    /\ result \in ResultsOf(sessions[s].op)
    /\ LET op == sessions[s].op
           got == [ExitContexts(sessions[s]) EXCEPT !.result = result]
       IN  sessions' = [sessions EXCEPT ![s] =
                          IF ConversionError(op, result) # NoExc
                          THEN Except(got, ConversionError(op, result))
                          ELSE [got EXCEPT !.phase = "returned",
                                           !.ret = ReturnValue(op, got.args, result)]]
    /\ inflight' = inflight \ {[sess |-> s, method |-> Method(sessions[s].op)]}
    /\ UNCHANGED <<pc, messages, openai_tools, resources, prompts, tool_calls,
                   idx, fetched, raised>>
    /\ UNCHANGED user_input

\* The request fails (transport or protocol error): both contexts are left on
\* the way to the except clause.
RequestFailed(s) ==
    /\ sessions[s].phase = "request"
    /\ sessions' = [sessions EXCEPT ![s] = Except(ExitContexts(@), ClosedErr)]
    /\ inflight' = inflight \ {[sess |-> s, method |-> Method(sessions[s].op)]}
    /\ UNCHANGED <<pc, messages, openai_tools, resources, prompts, tool_calls,
                   idx, fetched, raised>>
    /\ UNCHANGED user_input

\* --------------------------------------------- chat_with_assistant

\* Step 1: discover_tools is called.
StartDiscovery ==
    /\ pc = "start"
    /\ sessions' = Append(sessions, NewCall("discover_tools", [server_url |-> MCP_SERVER_URL]))
    /\ pc' = "discover_tools"
    /\ UNCHANGED <<messages, openai_tools, resources, prompts, tool_calls, idx,
                   fetched, raised, inflight>>
    /\ UNCHANGED user_input

\* discover_tools returned: without tools the function reports and returns,
\* otherwise list_resources is called.
AfterDiscoverTools ==
    /\ pc = "discover_tools"
    /\ Awaited(Callee)
    /\ openai_tools' = Callee.ret
    /\ IF NoTools(Callee.ret)
       THEN /\ pc' = "returned"
            /\ sessions' = Returned
       ELSE /\ pc' = "list_resources"
            /\ sessions' = Append(Returned,
                                  NewCall("list_resources", [server_url |-> MCP_SERVER_URL]))
    /\ UNCHANGED <<messages, resources, prompts, tool_calls, idx, fetched,
                   raised, inflight>>
    /\ UNCHANGED user_input

\* list_resources returned: list_prompts is called.
AfterListResources ==
    /\ pc = "list_resources"
    /\ Awaited(Callee)
    /\ resources' = Callee.ret
    /\ pc' = "list_prompts"
    /\ sessions' = Append(Returned, NewCall("list_prompts", [server_url |-> MCP_SERVER_URL]))
    /\ UNCHANGED <<messages, openai_tools, prompts, tool_calls, idx, fetched,
                   raised, inflight>>
    /\ UNCHANGED user_input

\* list_prompts returned: the transcript is created and the loop is entered.
AfterListPrompts ==
    /\ pc = "list_prompts"
    /\ Awaited(Callee)
    /\ prompts' = Callee.ret
    /\ messages' = <<SystemMsg>>
    /\ pc' = "input"
    /\ sessions' = Returned
    /\ UNCHANGED <<openai_tools, resources, tool_calls, idx, fetched, raised, inflight>>
    /\ UNCHANGED user_input

\* The for loop stops after the first tool call: the model is invoked for the
\* final answer as soon as one result is in the transcript.
ToolLoopFirstOnly(msgs, calls, i, infl, ss) ==
    /\ messages' = msgs
    /\ tool_calls' = calls
    /\ idx' = i
    /\ IF i > 1
       THEN /\ pc' = "final_response"
            /\ inflight' = infl \cup {LLMRequest}
            /\ sessions' = ss
            /\ UNCHANGED raised
       ELSE IF ~JsonOk(CallAt(calls, i).arguments)
            THEN /\ pc' = "crashed"
                 /\ raised' = "JSONDecodeError"
                 /\ inflight' = infl
                 /\ sessions' = ss
            ELSE /\ pc' = "execute_tool"
                 /\ sessions' = Append(ss,
                                  NewCall("execute_tool",
                                          [server_url |-> MCP_SERVER_URL,
                                           tool_name |-> CallAt(calls, i).name,
                                           arguments |-> JsonLoads(CallAt(calls, i).arguments)]))
                 /\ inflight' = infl
                 /\ UNCHANGED raised

\* The for loop over the tool calls, from position i on, with the transcript
\* msgs, the outstanding requests infl and the calls in progress ss: past the
\* last call the model is invoked for the final answer; arguments that do
\* not decode raise out of the function; otherwise execute_tool is called.
ToolLoop(msgs, calls, i, infl, ss) ==
    /\ messages' = msgs
    /\ tool_calls' = calls
    /\ idx' = i
    /\ IF i > Len(calls)
       THEN /\ pc' = "final_response"
            /\ inflight' = infl \cup {LLMRequest}
            /\ sessions' = ss
            /\ UNCHANGED raised
       ELSE IF ~JsonOk(CallAt(calls, i).arguments)
            THEN /\ pc' = "crashed"
                 /\ raised' = "JSONDecodeError"
                 /\ inflight' = infl
                 /\ sessions' = ss
            ELSE /\ pc' = "execute_tool"
                 /\ sessions' = Append(ss,
                                  NewCall("execute_tool",
                                          [server_url |-> MCP_SERVER_URL,
                                           tool_name |-> CallAt(calls, i).name,
                                           arguments |-> JsonLoads(CallAt(calls, i).arguments)]))
                 /\ inflight' = infl
                 /\ UNCHANGED raised

\* /resource and /prompt without an argument print their usage and are
\* dropped.
DispatchBareIgnored(line) ==
    IF Lower(line) = EXIT THEN "exit"
    ELSE IF StartsWith(line, "/")
    THEN LET command_parts == Split(line)
             command == Lower(command_parts[1])
         IN  IF command = HELP THEN "help"
             ELSE IF command = RESOURCE /\ Len(command_parts) >= 2 THEN "resource"
             ELSE IF command = PROMPT /\ Len(command_parts) >= 2 THEN "prompt"
             ELSE IF command \in {RESOURCE, PROMPT} THEN "help"
             ELSE "free"
    ELSE "free"

\* The line is compared with 'exit' as typed, without lower().
DispatchExitExact(line) ==
    IF line = EXIT THEN "exit"
    ELSE IF StartsWith(line, "/")
    THEN LET command_parts == Split(line)
             command == Lower(command_parts[1])
         IN  IF command = HELP THEN "help"
             ELSE IF command = RESOURCE /\ Len(command_parts) >= 2 THEN "resource"
             ELSE IF command = PROMPT /\ Len(command_parts) >= 2 THEN "prompt"
             ELSE "free"
    ELSE "free"

\* A line starting with '/' that is no known command is reported and dropped,
\* as /help is.
DispatchSlashGuarded(line) ==
    IF Lower(line) = EXIT THEN "exit"
    ELSE IF StartsWith(line, "/")
    THEN LET command_parts == Split(line)
             command == Lower(command_parts[1])
         IN  IF command = HELP THEN "help"
             ELSE IF command = RESOURCE /\ Len(command_parts) >= 2 THEN "resource"
             ELSE IF command = PROMPT /\ Len(command_parts) >= 2 THEN "prompt"
             ELSE "help"
    ELSE "free"

\* The branch of the loop body a line is handled by: the exit test, the
\* three commands, or the free-form turn every other line falls through to.
Dispatch(line) ==
    IF Lower(line) = EXIT THEN "exit"
    ELSE IF StartsWith(line, "/")
    THEN LET command_parts == Split(line)
             command == Lower(command_parts[1])
         IN  IF command = HELP THEN "help"
             ELSE IF command = RESOURCE /\ Len(command_parts) >= 2 THEN "resource"
             ELSE IF command = PROMPT /\ Len(command_parts) >= 2 THEN "prompt"
             ELSE "free"
    ELSE "free"

\* A line is read at the "You: " prompt and dispatched.
ReadInput(line) ==
    /\ pc = "input"
    /\ Len(messages) < MaxMessages
    /\ user_input' = PyStr(line)
    /\ LET parts == Split(line)
       IN  IF Dispatch(line) = "exit"
           THEN /\ pc' = "returned"
                /\ UNCHANGED <<messages, sessions, inflight>>
           ELSE IF Dispatch(line) = "help"
           THEN UNCHANGED <<pc, messages, sessions, inflight>>
           ELSE IF Dispatch(line) = "resource"
           THEN /\ pc' = "read_resource"
                /\ sessions' = Append(sessions,
                                 NewCall("read_resource",
                                         [server_url |-> MCP_SERVER_URL, uri |-> parts[2]]))
                /\ UNCHANGED <<messages, inflight>>
           ELSE IF Dispatch(line) = "prompt"
           THEN /\ pc' = "get_prompt"
                /\ sessions' = Append(sessions,
                                 NewCall("get_prompt",
                                         [server_url |-> MCP_SERVER_URL,
                                          name |-> parts[2],
                                          arguments |-> ParseArgs(parts, 3, <<>>)]))
                /\ UNCHANGED <<messages, inflight>>
           ELSE /\ messages' = AppendMsg(messages, UserMsg(PyStr(line)))
                /\ inflight' = inflight \cup {LLMRequest}
                /\ pc' = "first_response"
                /\ UNCHANGED sessions
    /\ UNCHANGED <<openai_tools, resources, prompts, tool_calls, idx, fetched, raised>>

\* The awaited call ended with an exception instead of a return value.
Raises(sess) == sess.ret.t = "raise"

\* read_resource returned: the content is shown and the user is asked. Had
\* it raised, the except branch of the command would report the error and
\* go back to the prompt for input.
AfterReadResource ==
    /\ pc = "read_resource"
    /\ Awaited(Callee)
    /\ fetched' = IF Raises(Callee) THEN PyNone ELSE Callee.ret
    /\ pc' = IF Raises(Callee) THEN "input" ELSE "add_resource"
    /\ sessions' = Returned
    /\ UNCHANGED <<messages, openai_tools, resources, prompts, tool_calls, idx,
                   raised, inflight>>
    /\ UNCHANGED user_input

\* The answer to "Add this resource to the chat?".
AnswerAddResource(answer) ==
    /\ pc = "add_resource"
    /\ messages' = IF Lower(answer) = YES
                   THEN AppendMsg(messages, UserMsg(PyStr(<<"\n\n">> \o Str(fetched))))
                   ELSE messages
    /\ pc' = "input"
    /\ UNCHANGED user_input
    /\ fetched' = PyNone
    /\ UNCHANGED <<openai_tools, resources, prompts, tool_calls, idx, raised,
                   sessions, inflight>>

\* get_prompt returned: the content is shown and the user is asked. Had it
\* raised, the except branch of the command would report the error and go
\* back to the prompt for input.
AfterGetPrompt ==
    /\ pc = "get_prompt"
    /\ Awaited(Callee)
    /\ fetched' = IF Raises(Callee) THEN PyNone ELSE Callee.ret
    /\ pc' = IF Raises(Callee) THEN "input" ELSE "add_prompt"
    /\ sessions' = Returned
    /\ UNCHANGED <<messages, openai_tools, resources, prompts, tool_calls, idx,
                   raised, inflight>>
    /\ UNCHANGED user_input

\* The answer to "Add this prompt to the chat?".
AnswerAddPrompt(answer) ==
    /\ pc = "add_prompt"
    /\ messages' = IF Lower(answer) = YES
                   THEN AppendMsg(messages, UserMsg(fetched))
                   ELSE messages
    /\ pc' = "input"
    /\ UNCHANGED user_input
    /\ fetched' = PyNone
    /\ UNCHANGED <<openai_tools, resources, prompts, tool_calls, idx, raised,
                   sessions, inflight>>

\* The model answers the first request: its message is appended; with tool
\* calls the for loop starts, without them the turn is over.
FirstResponse(reply) ==
    /\ pc = "first_response"
    /\ reply \in FirstReplies
    /\ IF reply.tool_calls # <<>>
       THEN /\ ToolLoop(AppendMsg(messages, reply), reply.tool_calls, 1,
                        inflight \ {LLMRequest}, sessions)
            /\ UNCHANGED user_input
       ELSE /\ messages' = AppendMsg(messages, reply)
            /\ tool_calls' = reply.tool_calls
            /\ inflight' = inflight \ {LLMRequest}
            /\ pc' = "input"
            /\ UNCHANGED user_input
            /\ UNCHANGED <<idx, sessions, raised>>
    /\ UNCHANGED <<openai_tools, resources, prompts, fetched>>

\* The model request raises (connection, authentication, rate limit ...):
\* nothing catches it and it leaves chat_with_assistant.
ModelFailed ==
    /\ pc \in {"first_response", "final_response"}
    /\ inflight' = inflight \ {LLMRequest}
    /\ raised' = "APIError"
    /\ pc' = "crashed"
    /\ UNCHANGED <<messages, openai_tools, resources, prompts, tool_calls, idx,
                   fetched, sessions>>
    /\ UNCHANGED user_input

\* execute_tool returned: the tool message is appended and the loop goes on.
AfterExecuteTool ==
    /\ pc = "execute_tool"
    /\ Awaited(Callee)
    /\ ToolLoop(AppendMsg(messages, ToolMsg(CallAt(tool_calls, idx), Callee.ret)),
                tool_calls, idx + 1, inflight, Returned)
    /\ UNCHANGED <<openai_tools, resources, prompts, fetched>>
    /\ UNCHANGED user_input

\* The model answers the second request: its message ends the turn.
FinalResponse(reply) ==
    /\ pc = "final_response"
    /\ reply \in FinalReplies
    /\ messages' = AppendMsg(messages, reply)
    /\ inflight' = inflight \ {LLMRequest}
    /\ pc' = "input"
    /\ UNCHANGED user_input
    /\ UNCHANGED <<openai_tools, resources, prompts, tool_calls, idx, fetched, raised, sessions>>

Next ==
    \/ StartDiscovery
    \/ AfterDiscoverTools
    \/ AfterListResources
    \/ AfterListPrompts
    \/ \E line \in InputLines : ReadInput(line)
    \/ AfterReadResource
    \/ \E answer \in Answers : AnswerAddResource(answer)
    \/ AfterGetPrompt
    \/ \E answer \in Answers : AnswerAddPrompt(answer)
    \/ \E reply \in FirstReplies : FirstResponse(reply)
    \/ ModelFailed
    \/ AfterExecuteTool
    \/ \E reply \in FinalReplies : FinalResponse(reply)
    \/ \E s \in DOMAIN sessions : Connected(s)
    \/ \E s \in DOMAIN sessions : ConnectFailed(s)
    \/ \E s \in DOMAIN sessions : Initialized(s)
    \/ \E s \in DOMAIN sessions : InitializeFailed(s)
    \/ \E s \in DOMAIN sessions, result \in UNION {ResultsOf(op) : op \in ClientOps} :
          Responded(s, result)
    \/ \E s \in DOMAIN sessions : RequestFailed(s)

Spec == Init /\ [][Next]_vars

\* ------------------------------------------------ test_client(server_url)

\* The characters a server URL is drawn from: the ones format_server_url
\* looks for and one that it does not.
UrlChars == {"h", "/", "s", "e"}

\* The server URLs test_client is called with.
ServerUrls == UNION { [1..n -> UrlChars] : n \in 0..MaxUrlLen }

\* test_client(server_url) has been called and has not run yet.
InitTestClient ==
    /\ pc = "test_client"
    /\ messages = <<>>
    /\ openai_tools = PyNone
    /\ resources = PyNone
    /\ prompts = PyNone
    /\ tool_calls = <<>>
    /\ idx = 0
    /\ fetched = PyNone
    /\ user_input = PyNone
    /\ raised = "none"
    /\ sessions = <<>>
    /\ inflight = {}

\* tools = await discover_tools(server_url): the call is entered.
TestClient(server_url) ==
    /\ pc = "test_client"
    /\ pc' = "test_discover"
    /\ sessions' = Append(sessions, NewCall("discover_tools", [server_url |-> server_url]))
    /\ UNCHANGED <<messages, openai_tools, resources, prompts, tool_calls, idx,
                   fetched, raised, inflight>>
    /\ UNCHANGED user_input

\* discover_tools returned: test_client prints its verdict and returns. The
\* finished call is kept, for its URLs to be looked at.
AfterTestDiscover ==
    /\ pc = "test_discover"
    /\ Awaited(Callee)
    /\ openai_tools' = Callee.ret
    /\ pc' = "returned"
    /\ UNCHANGED <<messages, resources, prompts, tool_calls, idx, fetched,
                   raised, sessions, inflight>>
    /\ UNCHANGED user_input

NextTestClient ==
    \/ pc = "test_client" /\ \E server_url \in ServerUrls : TestClient(server_url)
    \/ AfterTestDiscover
    \/ \E s \in DOMAIN sessions : Connected(s)
    \/ \E s \in DOMAIN sessions : ConnectFailed(s)
    \/ \E s \in DOMAIN sessions : Initialized(s)
    \/ \E s \in DOMAIN sessions : InitializeFailed(s)
    \/ \E s \in DOMAIN sessions, result \in ListToolsResults : Responded(s, result)
    \/ \E s \in DOMAIN sessions : RequestFailed(s)

SpecUrl == InitTestClient /\ [][NextTestClient]_vars

\* ------------------------------------------------------------ properties

\* The position of the last assistant message before position i (0: none).
LastAssistantBefore(i) ==
    IF \E j \in 1..(i - 1) : messages[j].role = "assistant"
    THEN CHOOSE j \in 1..(i - 1) :
           /\ messages[j].role = "assistant"
           /\ \A k \in (j + 1)..(i - 1) : messages[k].role # "assistant"
    ELSE 0

\* The calls in progress: entered and not yet returned.
Running == { s \in DOMAIN sessions : sessions[s].phase # "returned" }

\* C1: the transcript only grows by appending at its end: in every step its
\* length does not decrease and the messages it held keep their position and
\* content.
C1_TranscriptAppendOnly ==
    [][/\ Len(messages') >= Len(messages)
       /\ SubSeq(messages', 1, Len(messages)) = messages]_vars

\* A transcript grown by a fetched resource, a free-form line, a model reply
\* with tool calls, their results and the final answer.
C1_Witness ==
    /\ pc = "input"
    /\ Len(messages) >= 6
    /\ messages[2].role = "user"
    /\ messages[3].role = "user"
    /\ \E i \in DOMAIN messages : messages[i].role = "tool"

\* C2: every tool message of the transcript carries the id of a tool call of
\* the most recent assistant message before it.
C2_ToolResultMatchesCall ==
    \A i \in DOMAIN messages :
        messages[i].role = "tool" =>
            LET a == LastAssistantBefore(i)
            IN  /\ a # 0
                /\ \E k \in DOMAIN messages[a].tool_calls :
                       messages[a].tool_calls[k].id = messages[i].tool_call_id

\* Two tool results after an assistant message with two tool calls.
C2_Witness ==
    \E i \in DOMAIN messages :
        /\ i + 2 <= Len(messages)
        /\ messages[i].role = "assistant"
        /\ Len(messages[i].tool_calls) = 2
        /\ messages[i + 1].role = "tool"
        /\ messages[i + 2].role = "tool"
        /\ messages[i + 1].tool_call_id # messages[i + 2].tool_call_id

\* C3: while the tool calls c1..cn of a model reply are processed, execute_tool
\* is running for c_idx exactly when the results of c1..c_(idx-1), and nothing
\* else, follow the assistant message, each tagged with the id of its call, and
\* no model request is out; the model is invoked again exactly when all n
\* results are there, in the order of the calls.
C3_ToolCallsInOrder ==
    pc \in {"execute_tool", "final_response"} =>
        LET n == Len(tool_calls)
            a == Len(messages) - (idx - 1)
        IN  /\ idx \in 1..(n + 1)
            /\ a >= 1
            /\ messages[a].role = "assistant"
            /\ messages[a].tool_calls = tool_calls
            /\ \A k \in 1..(idx - 1) :
                   /\ messages[a + k].role = "tool"
                   /\ messages[a + k].tool_call_id = tool_calls[k].id
                   /\ messages[a + k].name = tool_calls[k].name
            /\ pc = "final_response" => idx = n + 1 /\ LLMRequest \in inflight
            /\ pc = "execute_tool" =>
                   /\ idx <= n
                   /\ LLMRequest \notin inflight
                   /\ sessions # <<>>
                   /\ Callee.op = "execute_tool"
                   /\ Callee.args.tool_name = tool_calls[idx].name
                   /\ Callee.args.arguments = JsonLoads(tool_calls[idx].arguments)

\* The model is invoked again after the results of two different calls.
C3_Witness ==
    /\ pc = "final_response"
    /\ tool_calls = <<GetHintCall, QuestionCall>>
    /\ messages[Len(messages) - 1].tool_call_id = GetHintCall.id
    /\ messages[Len(messages)].tool_call_id = QuestionCall.id

\* C4: at most one external call is in progress: at most one request is out
\* in all (so at most one per session), at most one client operation runs, and
\* none runs while the model request is out.
C4_SingleFlight ==
    /\ Cardinality(inflight) <= 1
    /\ Cardinality(Running) <= 1
    /\ LLMRequest \in inflight => Running = {}
    /\ \A s \in DOMAIN sessions :
           Cardinality({ r \in inflight : r.sess = s }) <= 1

\* The second tool call's request is out, after the first call has returned.
C4_Witness ==
    /\ pc = "execute_tool"
    /\ idx = 2
    /\ \E r \in inflight : r.method = "call_tool"

\* The step in which chat_with_assistant takes the return value of an
\* execute_tool call that ended in its except clause.
TakesFailedToolResult ==
    /\ pc = "execute_tool"
    /\ Callee.phase = "returned"
    /\ Callee.exc # NoExc
    /\ messages' # messages

\* C5: when execute_tool ends in its except clause, the error text is appended
\* as the tool message of that call and the for loop goes on: it takes up the
\* next call (execute_tool is called for it, unless decoding its arguments
\* raises), and after the last call the model is invoked again.
C5_ToolFailureContinues ==
    [][TakesFailedToolResult =>
         /\ messages' = Append(messages,
                          ToolMsg(tool_calls[idx], ErrorText(Callee.exc)))
         /\ tool_calls' = tool_calls
         /\ idx' = idx + 1
         /\ IF idx < Len(tool_calls)
            THEN \/ /\ pc' = "execute_tool"
                    /\ sessions'[Len(sessions')].phase = "connecting"
                    /\ sessions'[Len(sessions')].args.tool_name = tool_calls[idx + 1].name
                 \/ /\ ~JsonOk(tool_calls[idx + 1].arguments)
                    /\ raised' = "JSONDecodeError"
            ELSE /\ pc' = "final_response"
                 /\ LLMRequest \in inflight']_vars

\* The first of two calls failed to connect, the second was executed all the
\* same and the model is invoked again.
C5_Witness ==
    /\ pc = "final_response"
    /\ Len(tool_calls) = 2
    /\ messages[Len(messages) - 1].role = "tool"
    /\ messages[Len(messages) - 1].content = ErrorText(ConnectErr)
    /\ messages[Len(messages)].role = "tool"
    /\ LLMRequest \in inflight

\* The step in which chat_with_assistant takes the return value of an
\* execute_tool call whose result the server flagged as an error.
TakesServerFailure ==
    /\ pc = "execute_tool"
    /\ Callee.phase = "returned"
    /\ Callee.result # PyNone
    /\ Callee.result.isError
    /\ messages' # messages

\* C6: a tool invocation the server reports as failed is appended as a tool
\* message with isError = true, and the model is asked for a follow-up answer.
C6_ServerFailureTagged ==
    [][TakesServerFailure =>
         /\ Len(messages') = Len(messages) + 1
         /\ messages'[Len(messages')].role = "tool"
         /\ HasAttr(messages'[Len(messages')], "isError")
         /\ messages'[Len(messages')].isError = TRUE
         /\ pc' \in {"execute_tool", "final_response"}]_vars

\* C7: an exception raised by the model request or by the decoding of a tool
\* call aborts the current turn only: the loop is back at the input prompt.
C7_ErrorAbortsTurnOnly == raised # "none" => pc = "input"

\* C8: with an empty tool catalog chat_with_assistant has returned and nothing
\* else has happened or is in progress: no resource or prompt discovery, no
\* transcript, no input read, no model or tool request.
C8_NoToolsNoLoop ==
    openai_tools = PyList(<<>>) =>
        /\ pc = "returned"
        /\ resources = PyNone
        /\ prompts = PyNone
        /\ messages = <<>>
        /\ sessions = <<>>
        /\ inflight = {}

\* Discovery has returned an empty catalog.
C8_Witness == openai_tools = PyList(<<>>) /\ pc = "returned"

\* C9: a client operation that has returned has left no session open (its
\* session is closed, or was never opened because connecting failed), at most
\* one session is open at a time, and none is open while no operation runs.
C9_SessionsClosedOnReturn ==
    /\ \A s \in DOMAIN sessions :
           sessions[s].phase = "returned" =>
               \/ sessions[s].state = "Closed"
               \/ sessions[s].state = "Unopened" /\ sessions[s].exc = ConnectErr
    /\ Cardinality({ s \in DOMAIN sessions :
                       sessions[s].state \in {"Open", "Initialized"} }) <= 1
    /\ Running = {} =>
           \A s \in DOMAIN sessions : sessions[s].state \notin {"Open", "Initialized"}

\* An operation has returned through its except clause after its session was
\* initialized, and the session is closed.
C9_Witness ==
    \E s \in DOMAIN sessions :
        /\ sessions[s].phase = "returned"
        /\ sessions[s].exc = AttrErr
        /\ sessions[s].state = "Closed"

\* Every request that is out on a session is the handshake on an open session
\* or the operation's request on an initialized one.
RequestsLegal ==
    \A r \in inflight :
        r.sess # 0 =>
            /\ r.sess \in DOMAIN sessions
            /\ \/ r.method = "initialize" /\ sessions[r.sess].state = "Open"
               \/ /\ r.method = Method(sessions[r.sess].op)
                  /\ sessions[r.sess].state = "Initialized"

\* The state changes of a session.
LifecycleSteps ==
    { <<"Unopened", "Open">>, <<"Open", "Initialized">>, <<"Open", "Closed">>,
      <<"Initialized", "Closed">> }

\* C10: a session goes Unopened, Open, Initialized, Closed in that order, the
\* operation's request is only ever out on an initialized session and the
\* handshake only on an open one; nothing is out on a closed session.
C10_SessionLifecycle ==
    [][/\ RequestsLegal'
       /\ \A s \in DOMAIN sessions \cap DOMAIN sessions' :
              \/ sessions'[s].state = sessions[s].state
              \/ <<sessions[s].state, sessions'[s].state>> \in LifecycleSteps
              \/ /\ sessions[s].phase = "returned"
                 /\ sessions'[s].phase = "connecting"
                 /\ sessions'[s].state = "Unopened"]_vars

\* The tool request is out on an initialized session.
C10_Witness ==
    \E r \in inflight :
        /\ r.method = "call_tool"
        /\ sessions[r.sess].state = "Initialized"

\* The URL without one trailing slash.
StripSlash(url) ==
    IF EndsWith(url, <<"/">>) THEN SubSeq(url, 1, Len(url) - 1) ELSE url

\* How many times the URL ends with the /sse suffix.
RECURSIVE SuffixCount(_)
SuffixCount(url) ==
    IF EndsWith(url, SSE) THEN 1 + SuffixCount(SubSeq(url, 1, Len(url) - Len(SSE)))
    ELSE 0

\* C11: for every server URL a client operation is called with, the URL it
\* connects to ends with /sse, formatting it again changes nothing, and the
\* suffix is appended only when absent: a URL that already carries it, with
\* or without a trailing slash, comes out with as many suffixes as it had,
\* and any other URL with exactly one.
C11_SuffixExactlyOnce ==
    \A s \in DOMAIN sessions :
       LET u == sessions[s].args.server_url
           f == sessions[s].formatted_url
       IN  /\ EndsWith(f, SSE)
           /\ format_server_url(f) = f
           /\ SuffixCount(f) = IF EndsWith(StripSlash(u), SSE)
                               THEN SuffixCount(StripSlash(u))
                               ELSE 1

\* The required arguments the call sess of get_prompt was not given.
MissingArguments(sess) ==
    RequiredArguments(sess.args.name) \ DOMAIN sess.args.arguments

\* C12: a call of get_prompt that lacks a required argument of its prompt
\* is stopped before the wire: no get_prompt request of it is ever in
\* flight and it never holds a server result.
C12_RequiredArgumentsChecked ==
    \A s \in DOMAIN sessions :
       (sessions[s].op = "get_prompt" /\ MissingArguments(sessions[s]) # {})
          => /\ [sess |-> s, method |-> Method("get_prompt")] \notin inflight
             /\ sessions[s].result = PyNone

\* The calls of op that have returned after the server answered.
Answered(op) ==
    { s \in DOMAIN sessions :
        /\ sessions[s].op = op
        /\ sessions[s].phase = "returned"
        /\ sessions[s].result # PyNone }

\* C13: when the server answers get_prompt with the messages m1..mn, the
\* call returns one string made of n segments in the order of the messages,
\* the i-th being the role of mi, ": " and the text of mi, with a blank line
\* between two segments: no message is dropped, duplicated or reordered.
C13_PromptMessagesJoined ==
    \A s \in Answered("get_prompt") :
       LET m == sessions[s].result.messages
           r == sessions[s].ret
       IN  /\ r.t = "str"
           /\ Len(r.s) = IF m = <<>> THEN 0 ELSE 4 * Len(m) - 1
           /\ \A i \in DOMAIN m :
                 /\ r.s[4 * i - 3] = m[i].role
                 /\ r.s[4 * i - 2] = ": "
                 /\ r.s[4 * i - 1] = m[i].content[1].text[1]
                 /\ i < Len(m) => r.s[4 * i] = "\n\n"

\* C14: when the server answers call_tool or read_resource with one or more
\* content blocks of which the first is a text block, execute_tool and
\* read_resource return the text of that first block verbatim, whatever
\* follows it.
C14_FirstBlockOnly ==
    /\ \A s \in Answered("execute_tool") :
          LET content == sessions[s].result.content
          IN  (content # <<>> /\ content[1].type = "text")
                 => sessions[s].ret = PyStr(content[1].text)
    /\ \A s \in Answered("read_resource") :
          LET contents == sessions[s].result.contents
          IN  (contents # <<>> /\ contents[1].type = "text")
                 => sessions[s].ret = PyStr(contents[1].text)

\* Both operations have returned the first of several blocks: read_resource
\* during a /resource command whose content was added, execute_tool for the
\* tool call of the turn after it.
C14_Witness ==
    /\ \E s \in Answered("execute_tool") :
          /\ Len(sessions[s].result.content) = 2
          /\ sessions[s].ret = PyStr(<<"hint">>)
    /\ \E i \in DOMAIN messages :
          messages[i] = UserMsg(PyStr(<<"\n\n", "# Algebra">>))

\* C15: a read of topic://<t> for a topic the server has no content for is
\* answered by a normal result: read_resource returns, without an exception,
\* the sentence saying that no content is available for t. And the client
\* never refuses a read by itself, whatever the discovered resource list
\* holds: a read that returns without a server answer was stopped by the
\* transport.
C15_MissingTopicIsNormalResult ==
    \A s \in DOMAIN sessions :
       (sessions[s].op = "read_resource" /\ sessions[s].phase = "returned")
          => /\ sessions[s].result = NoContentResult
                  => /\ sessions[s].exc = NoExc
                     /\ sessions[s].ret =
                          PyStr(<<"No content available for ">> \o ALGEBRA \o <<".">>)
             /\ sessions[s].result = PyNone
                  => sessions[s].exc \in {ConnectErr, ClosedErr}

\* With an empty discovered resource list, the read of topic://algebra has
\* come back from a server without content for algebra.
C15_Witness ==
    /\ resources = PyList(<<>>)
    /\ \E s \in Answered("read_resource") :
          /\ sessions[s].args.uri = <<"t", "o", "p", "i", "c", ":", "/", "/", "a", "l", "g", "e", "b", "r", "a">>
          /\ sessions[s].result = NoContentResult
          /\ sessions[s].ret.t = "str"

\* Where the loop stands while a /resource or /prompt command is handled.
CommandPcs == {"read_resource", "add_resource", "get_prompt", "add_prompt"}

\* The fetch of the current command failed: what it returned is the text of
\* an exception.
FetchFailed == fetched.t = "str" /\ fetched.s # <<>> /\ fetched.s[1] = "Error: "

\* C16: a /resource or /prompt command never invokes the model or a tool and
\* leads back to the prompt for input; the transcript stays as it is, except
\* that the step answering the add-to-chat question after a successful fetch
\* may append exactly one user message, which holds the fetched content.
\* /help is a step from the prompt for input to itself.
C16_CommandsBypassModel ==
    [][(pc \in CommandPcs \/ (pc = "input" /\ pc' \in CommandPcs \cup {"input"}))
          => /\ pc' \in CommandPcs \cup {"input"}
             /\ LLMRequest \notin inflight'
             /\ \A s \in DOMAIN sessions' : sessions'[s].op # "execute_tool"
             /\ \/ messages' = messages
                \/ /\ pc \in {"add_resource", "add_prompt"}
                   /\ ~FetchFailed
                   /\ Len(messages') = Len(messages) + 1
                   /\ SubSeq(messages', 1, Len(messages)) = messages
                   /\ messages'[Len(messages')].role = "user"
                   /\ EndsWith(messages'[Len(messages')].content.s, Str(fetched))]_vars

\* The line starts with '/' and its first word is none of the commands.
UnknownCommand(line) ==
    /\ StartsWith(line, "/")
    /\ Lower(Split(line)[1]) \notin {HELP, RESOURCE, PROMPT}

\* C17: once a line that starts with '/' and is none of /help, /resource and
\* /prompt has been read, the transcript holds it verbatim as a user message
\* with only assistant and tool messages after it; it is the last message
\* while the first model request of its turn is out, and the loop is back at
\* the prompt for input only after the model has answered it.
C17_UnknownCommandIsFreeForm ==
    (user_input.t = "str" /\ UnknownCommand(user_input.s))
       => /\ pc \in {"first_response", "execute_tool", "final_response", "crashed", "input"}
          /\ \E i \in DOMAIN messages :
                /\ messages[i] = UserMsg(PyStr(user_input.s))
                /\ \A j \in (i + 1)..Len(messages) : messages[j].role \in {"assistant", "tool"}
                /\ pc = "first_response" => (i = Len(messages) /\ LLMRequest \in inflight)
                /\ pc = "input" => i < Len(messages)

\* The line /quiz has been read and the model has been asked about it.
C17_Witness ==
    /\ user_input = PyStr(<<"/", "q", "u", "i", "z">>)
    /\ pc = "first_response"
    /\ LLMRequest \in inflight
    /\ messages[Len(messages)] = UserMsg(PyStr(<<"/", "q", "u", "i", "z">>))

\* C18: a call of execute_tool sends at most one call_tool request: none
\* when connecting or the handshake failed, exactly one once the session was
\* initialized, whether the request then succeeded or failed. And the loop
\* calls execute_tool once for every tool call: while the call for the idx-th
\* tool call is in progress, the transcript holds the results of the idx - 1
\* calls before it and no other.
C18_ToolCallSentOnce ==
    /\ \A s \in DOMAIN sessions :
          sessions[s].op = "execute_tool"
             => /\ sessions[s].requests \in
                     IF sessions[s].state \in {"Unopened", "Open"} THEN {0}
                     ELSE IF sessions[s].state = "Initialized" THEN {1}
                     ELSE IF sessions[s].result # PyNone THEN {1}
                     ELSE {0, 1}
                /\ [sess |-> s, method |-> "call_tool"] \in inflight
                     => (sessions[s].phase = "request" /\ sessions[s].requests = 1)
    /\ pc = "execute_tool"
          => /\ Cardinality({ s \in DOMAIN sessions : sessions[s].op = "execute_tool" }) = 1
             /\ Cardinality({ i \in DOMAIN messages :
                                /\ messages[i].role = "tool"
                                /\ i > LastAssistantBefore(Len(messages) + 1) }) = idx - 1

\* A tool call whose only call_tool request failed: the call has returned
\* the error text after one request.
C18_Witness ==
    /\ pc = "execute_tool"
    /\ \E s \in DOMAIN sessions :
          /\ sessions[s].op = "execute_tool"
          /\ sessions[s].phase = "returned"
          /\ sessions[s].exc = ClosedErr
          /\ sessions[s].requests = 1

\* The word exit as the user can type it.
ExitSpellings ==
    { <<"e", "x", "i", "t">>, <<"E", "x", "i", "t">>, <<"E", "X", "I", "T">> }

\* C19: when the line read at the prompt for input is 'exit' in any letter
\* case, reading it ends the function: no message is appended, no request is
\* sent and no client call is started by that step, none is outstanding, and
\* no step follows it.
C19_ExitEndsSession ==
    [][(user_input'.t = "str" /\ user_input'.s \in ExitSpellings)
          => /\ pc = "input"
             /\ pc' = "returned"
             /\ messages' = messages
             /\ sessions = <<>> /\ sessions' = <<>>
             /\ inflight = {} /\ inflight' = {}]_vars

\* The session was ended with 'Exit' after a turn that grew the transcript.
C19_Witness ==
    /\ pc = "returned"
    /\ user_input = PyStr(<<"E", "x", "i", "t">>)
    /\ Len(messages) > 1

\* Where the loop stands during a free-form turn.
TurnPcs == {"first_response", "execute_tool", "final_response"}

\* C20: a free-form turn stops short of the prompt for input only when an
\* external call failed, and it comes back to the prompt for input with an
\* assistant message appended last: from the first model answer when that
\* answer has no tool calls, and otherwise from the second model answer,
\* after one pass over all the tool calls of the first.
C20_TurnReturnsToInput ==
    [][/\ pc' = "crashed" => raised' = "APIError"
       /\ (pc \in TurnPcs /\ pc' = "input")
             => /\ Len(messages') = Len(messages) + 1
                /\ messages'[Len(messages')].role = "assistant"
                /\ messages'[Len(messages')].tool_calls = <<>>
                /\ IF tool_calls' = <<>> THEN pc = "first_response"
                   ELSE pc = "final_response" /\ idx = Len(tool_calls) + 1]_vars

\* The position of the first assistant message after position a, or one past
\* the end of the transcript.
NextAssistantAfter(a) ==
    IF \E j \in (a + 1)..Len(messages) : messages[j].role = "assistant"
    THEN CHOOSE j \in (a + 1)..Len(messages) :
           /\ messages[j].role = "assistant"
           /\ \A k \in (a + 1)..(j - 1) : messages[k].role # "assistant"
    ELSE Len(messages) + 1

\* C21: whenever the loop waits for input, every tool call of every
\* assistant message of the transcript is followed, before the next
\* assistant message, by exactly one tool message carrying its id.
C21_TranscriptWellFormedAtInput ==
    pc = "input" =>
       \A a \in DOMAIN messages :
          messages[a].role = "assistant" =>
             \A k \in DOMAIN messages[a].tool_calls :
                Cardinality({ j \in (a + 1)..(NextAssistantAfter(a) - 1) :
                                /\ messages[j].role = "tool"
                                /\ messages[j].tool_call_id = messages[a].tool_calls[k].id }) = 1

\* The loop waits for input after a turn whose reply had two tool calls.
C21_Witness ==
    /\ pc = "input"
    /\ \E a \in DOMAIN messages :
          /\ messages[a].role = "assistant"
          /\ Len(messages[a].tool_calls) = 2
          /\ Len(messages) = a + 3

\* C22: read_resource and get_prompt come back with a return value whatever
\* happened: after a connection, handshake or request failure the value is
\* 'Error: ' followed by the text of the exception. The command does not take
\* its error branch: it shows the value as the fetched content and asks the
\* question, and an answer either leaves the transcript alone or appends the
\* value, error text included, as one user message.
C22_FetchErrorsAreContent ==
    [][/\ (pc \in {"read_resource", "get_prompt"} /\ pc' # pc)
            => /\ pc' = (IF pc = "read_resource" THEN "add_resource" ELSE "add_prompt")
               /\ fetched' = Callee.ret
               /\ fetched'.t = "str"
               /\ Callee.exc \in {ConnectErr, ClosedErr}
                    => fetched'.s = <<"Error: ">> \o Callee.exc
       /\ (pc \in {"add_resource", "add_prompt"} /\ FetchFailed /\ messages' # messages)
            => /\ Len(messages') = Len(messages) + 1
               /\ messages'[Len(messages')].role = "user"
               /\ EndsWith(messages'[Len(messages')].content.s, fetched.s)]_vars

\* The text of a failed read was added to the chat: the loop waits for input
\* with the error text as the last user message.
C22_Witness ==
    /\ pc = "input"
    /\ messages[Len(messages)] =
          UserMsg(PyStr(<<"\n\n", "Error: ">> \o ConnectErr))

\* The awaited call ended in its except clause.
Failed(sess) == sess.exc # NoExc

\* C23: when discover_tools fails, it hands back an empty catalog and startup
\* ends there, in the same state as after a server that lists no tools. When
\* list_resources or list_prompts fails, the list is empty and startup goes
\* on: list_prompts is called, then the transcript is created and the loop
\* waits for input.
C23_DiscoveryFailureIsEmptyCatalog ==
    [][/\ (pc = "discover_tools" /\ pc' # pc
             /\ (Failed(Callee) \/ Callee.result = [tools |-> <<>>]))
            => /\ openai_tools' = PyList(<<>>)
               /\ pc' = "returned"
               /\ sessions' = <<>>
               /\ UNCHANGED <<messages, resources, prompts, inflight>>
       /\ (pc = "list_resources" /\ pc' # pc /\ Failed(Callee))
            => /\ resources' = PyList(<<>>)
               /\ pc' = "list_prompts"
       /\ (pc = "list_prompts" /\ pc' # pc /\ Failed(Callee))
            => /\ prompts' = PyList(<<>>)
               /\ pc' = "input"
               /\ messages' = <<SystemMsg>>]_vars

\* list_prompts has failed and handed back an empty list, after
\* list_resources gave an empty list too; the tool catalog is not empty.
C23_Witness ==
    /\ pc = "list_prompts"
    /\ Truthy(openai_tools)
    /\ resources = PyList(<<>>)
    /\ Callee.op = "list_prompts"
    /\ Callee.phase = "returned"
    /\ Failed(Callee)
    /\ Callee.ret = PyList(<<>>)

\* The line is /resource or /prompt, in any letter case, and nothing else.
BareCommand(line) ==
    /\ StartsWith(line, "/")
    /\ Len(Split(line)) = 1
    /\ Lower(Split(line)[1]) \in {RESOURCE, PROMPT}

\* C24: once /resource or /prompt has been read without an argument, no
\* resource or prompt is fetched for it: the loop is in a free-form turn or
\* back from it, the transcript holds the line verbatim as a user message
\* with only assistant and tool messages after it, and that message is the
\* last one while the first model request of the turn is out.
C24_BareCommandIsFreeForm ==
    (user_input.t = "str" /\ BareCommand(user_input.s))
       => /\ pc \in TurnPcs \cup {"crashed", "input"}
          /\ \A s \in DOMAIN sessions :
                sessions[s].op \notin {"read_resource", "get_prompt"}
          /\ \E i \in DOMAIN messages :
                /\ messages[i] = UserMsg(PyStr(user_input.s))
                /\ \A j \in (i + 1)..Len(messages) : messages[j].role \in {"assistant", "tool"}
                /\ pc = "first_response" => (i = Len(messages) /\ LLMRequest \in inflight)
                /\ pc = "input" => i < Len(messages)

\* The line /prompt has been read and the model has answered it.
C24_Witness ==
    /\ user_input = PyStr(PROMPT)
    /\ pc = "input"
    /\ Len(messages) = 3
    /\ messages[2] = UserMsg(PyStr(PROMPT))
    /\ messages[3].role = "assistant"

====
